---- MODULE Spec2Model ----
(***************************************************************************)
(* vue3-auth, src/src/auth.ts (the plugin with storage backends, lines     *)
(* 176-435): the token store, the session controller (login, logout,       *)
(* tryRefreshToken), construction-time hydration and the router's          *)
(* beforeEach guard, as a state machine of cooperatively scheduled async   *)
(* calls.  A step of the machine is one synchronous run of JavaScript      *)
(* between two suspension points (await).                                  *)
(*                                                                         *)
(* Strings are sequences of symbols.  A symbol is one of the characters    *)
(* the code parses on (".", "=", ";", " ") or a chunk of other characters  *)
(* ("jwt_token", "abc123"), so that split and startsWith are computed as   *)
(* the code computes them.  JavaScript values are tagged records.          *)
(***************************************************************************)
EXTENDS Integers, Sequences, FiniteSets, TLC

VARIABLES
    options,              \* the AuthOptions given to createAuth (immutable)
    cookieStoreAvailable, \* 'cookieStore' in window
    storageUnavailable,   \* every call of the selected storage backend throws
    token,                \* auth.token
    refreshToken,         \* auth.refreshToken
    store,                \* contents of the selected storage backend, by key
    hydration,            \* the two pending .then callbacks of construction
    _redirectAfterLogin,  \* module-level pending redirect
    tasks,                \* the async calls in flight, one per slot
    overlap               \* whether the callers make calls while others are in flight

vars == <<options, cookieStoreAvailable, storageUnavailable, token, refreshToken, store,
          hydration, _redirectAfterLogin, tasks, overlap>>

-----------------------------------------------------------------------------
(* JavaScript values *)

Undef == [t |-> "undefined"]
Null == [t |-> "null"]
Str(s) == [t |-> "string", s |-> s]
Bool(b) == [t |-> "boolean", b |-> b]
Obj(f) == [t |-> "object", f |-> f]
Failure == [t |-> "rejected"]

\* !!v for the values above
Truthy(v) ==
    \/ v.t = "object"
    \/ v.t = "string" /\ v.s # <<>>
    \/ v.t = "boolean" /\ v.b

\* a || b
OrElse(a, b) == IF Truthy(a) THEN a ELSE b

-----------------------------------------------------------------------------
(* String primitives: String.prototype.startsWith and split *)

startsWith(s, p) == Len(p) <= Len(s) /\ SubSeq(s, 1, Len(p)) = p

FirstIndexOf(s, sep) ==
    LET hits == {i \in 1..Len(s) : startsWith(SubSeq(s, i, Len(s)), sep)}
    IN  IF hits = {} THEN 0 ELSE CHOOSE i \in hits : \A j \in hits : i <= j

RECURSIVE split(_, _)
split(s, sep) ==
    LET i == FirstIndexOf(s, sep)
    IN  IF i = 0 THEN <<s>>
        ELSE <<SubSeq(s, 1, i - 1)>> \o split(SubSeq(s, i + Len(sep), Len(s)), sep)

-----------------------------------------------------------------------------
(* Path Extractor *)

\* acc?.[part]
OptionalIndex(acc, part) ==
    IF acc.t = "object" /\ part \in DOMAIN acc.f THEN acc.f[part] ELSE Undef

RECURSIVE reduce(_, _)
reduce(parts, acc) ==
    IF parts = <<>> THEN acc
    ELSE reduce(Tail(parts), OptionalIndex(acc, Head(parts)))

\* Mutant: the path is used as one key, obj[path]
getByPath_unsplit(obj, path) == OptionalIndex(obj, path)

getByPath(obj, path) == reduce(split(path, <<".">>), obj)

-----------------------------------------------------------------------------
(* Configuration: createAuthInstance's constants.  An option that is not   *)
(* given is the empty string, which || treats like undefined.              *)

tokenKey == <<"jwt_token">>
refreshTokenKey == <<"refresh_token">>
loginUrl == <<"/api/login">>
refreshUrl == <<"/api/refresh">>
profileUrl == <<"/api/me">>
profileDataKey == options.profile_dataKey
loginDataKey == options.login_dataKey
router == options.router
defaultRedirect ==
    IF options.defaultRedirect # <<>> THEN options.defaultRedirect ELSE <<"/dashboard">>
useRefreshToken == options.useRefreshToken
storage == IF options.storage # "" THEN options.storage ELSE "session"
tokenPath == IF options.tokenPath # <<>> THEN options.tokenPath ELSE <<"token">>
refreshTokenPath ==
    IF options.refreshTokenPath # <<>> THEN options.refreshTokenPath
    ELSE <<"refresh_token">>

Keys == {tokenKey, refreshTokenKey}

-----------------------------------------------------------------------------
(* Storage Adapter.  st is the content of the selected backend: the value  *)
(* held under each key, or Null.  localStorage and sessionStorage hold it  *)
(* as written; a cookie is written and read through the cookie string.     *)

\* The value of the document.cookie getter: "k1=v1; k2=v2".
RECURSIVE cookieRows(_, _)
cookieRows(st, keys) ==
    IF keys = <<>> THEN <<>>
    ELSE LET k == Head(keys)
             rest == cookieRows(st, Tail(keys))
         IN  IF st[k] = Null THEN rest
             ELSE LET row == k \o <<"=">> \o st[k].s
                  IN  IF rest = <<>> THEN row ELSE row \o <<";", " ">> \o rest

documentCookie(st) == cookieRows(st, <<tokenKey, refreshTokenKey>>)

\* The document.cookie setter: the name and value are the text before the
\* first ";", split at its first "="; an Expires attribute (only ever the
\* epoch here) deletes the cookie.
assignDocumentCookie(st, text) ==
    LET pair == split(text, <<";">>)[1]
        i == FirstIndexOf(pair, <<"=">>)
        name == SubSeq(pair, 1, i - 1)
        value == SubSeq(pair, i + 1, Len(pair))
        attrs == split(text, <<";", " ">>)
        expired == \E j \in 1..Len(attrs) : startsWith(attrs[j], <<"Expires", "=">>)
    IN  IF i = 0 \/ name \notin DOMAIN st THEN st
        ELSE [st EXCEPT ![name] = IF expired THEN Null ELSE Str(value)]

\* document.cookie.split('; ').find(row => row.startsWith(key + '='))
\*     ?.split('=')[1] || null
documentCookieGet(st, key) ==
    LET rows == split(documentCookie(st), <<";", " ">>)
        hits == {j \in 1..Len(rows) : startsWith(rows[j], key \o <<"=">>)}
    IN  IF hits = {} THEN Null
        ELSE LET row == rows[CHOOSE j \in hits : \A k \in hits : j <= k]
             IN  OrElse(Str(split(row, <<"=">>)[2]), Null)

\* storageAPI.get(key): the value the returned promise resolves with
storageGet(st, key) ==
    IF storage = "local" THEN st[key]
    ELSE IF storage = "cookie"
         THEN IF cookieStoreAvailable THEN OrElse(st[key], Null)
              ELSE documentCookieGet(st, key)
         ELSE st[key]

\* storageAPI is made of async functions: when the backend throws, the
\* promise they return is rejected, and so is the promise of the Token Store
\* method that awaits it
storageRejects == storageUnavailable

\* storageAPI.set(key, value): the backend after the call
storageSet(st, key, value) ==
    IF storageUnavailable THEN st
    ELSE IF storage = "local" THEN [st EXCEPT ![key] = Str(value)]
    ELSE IF storage = "cookie"
         THEN IF cookieStoreAvailable THEN [st EXCEPT ![key] = Str(value)]
              ELSE assignDocumentCookie(st,
                       key \o <<"=">> \o value
                           \o <<";", " ", "Path=/", ";", " ", "SameSite=Strict", ";">>)
         ELSE [st EXCEPT ![key] = Str(value)]

\* storageAPI.remove(key): the backend after the call
storageRemove(st, key) ==
    IF storageUnavailable THEN st
    ELSE IF storage = "local" THEN [st EXCEPT ![key] = Null]
    ELSE IF storage = "cookie"
         THEN IF cookieStoreAvailable THEN [st EXCEPT ![key] = Null]
              ELSE assignDocumentCookie(st,
                       key \o <<"=">>
                           \o <<";", " ", "Path=/", ";", " ", "Expires", "=", "epoch",
                                ";", " ", "SameSite=Strict", ";">>)
         ELSE [st EXCEPT ![key] = Null]

-----------------------------------------------------------------------------
(* Token Store: the synchronous part of each method, up to its await *)

isAuthenticated == Truthy(token)
getToken == token

\* setToken(t): auth.token = t, then storageAPI.set(tokenKey, t)
setToken(t) ==
    /\ token' = Str(t)
    /\ store' = storageSet(store, tokenKey, t)

\* setRefreshToken(t): nothing when refresh mode is off
setRefreshToken(t) ==
    IF ~useRefreshToken THEN UNCHANGED <<refreshToken, store>>
    ELSE /\ refreshToken' = Str(t)
         /\ store' = storageSet(store, refreshTokenKey, t)

\* Mutant: the stored value is removed, the token in memory is kept
clearToken_storageOnly ==
    /\ token' = token
    /\ store' = storageRemove(store, tokenKey)

clearToken ==
    /\ token' = Null
    /\ store' = storageRemove(store, tokenKey)

\* Mutant: the refresh token is cleared whether or not refresh mode is on
clearRefreshToken_always ==
    /\ refreshToken' = Null
    /\ store' = storageRemove(store, refreshTokenKey)

clearRefreshToken ==
    IF ~useRefreshToken THEN UNCHANGED <<refreshToken, store>>
    ELSE /\ refreshToken' = Null
         /\ store' = storageRemove(store, refreshTokenKey)

-----------------------------------------------------------------------------
(* Bounds and the inputs drawn from them *)

MaxTasks == 2
Slots == 1..MaxTasks
\* How many redirects of one navigation the router is followed through
MaxHops == 3

abc123 == <<"abc123">>
padded == <<"eQ", "=", "=">>
r1 == <<"r1">>

\* Values the backend may already hold when the page loads
StoredTokens == {Null, Str(abc123)}
StoredRefreshTokens == {Null, Str(r1)}

\* Arguments of direct setToken / setRefreshToken calls
TokenArgs == {abc123, padded, <<>>}
RefreshArgs == {r1}

\* An object literal with the given fields
Rec1(k1, v1) == Obj([k \in {k1} |-> v1])
Rec2(k1, v1, k2, v2) == Obj([k \in {k1, k2} |-> IF k = k1 THEN v1 ELSE v2])
Empty == Obj([k \in {} |-> Undef])

\* Response bodies of the login endpoint
LoginBodies ==
    { Rec2(<<"token">>, Str(abc123), <<"refresh_token">>, Str(r1)),
      Rec1(<<"token">>, Str(padded)),
      Rec1(<<"refresh_token">>, Str(r1)),
      Rec1(<<"token">>, Str(<<>>)),
      Rec1(<<"result">>,
           Rec1(<<"data">>, Rec2(<<"jwt">>, Str(abc123), <<"refresh">>, Str(r1)))),
      Rec1(<<"result">>, Null) }

\* Response bodies of the refresh endpoint
RefreshBodies ==
    { Rec1(<<"token">>, Str(padded)),
      Rec1(<<"data">>, Rec1(<<"jwt">>, Str(abc123))),
      Empty }

\* Response bodies of the profile endpoint
ann == Rec1(<<"name">>, Str(<<"ann">>))
ProfileBodies ==
    { ann,
      Rec1(<<"data">>, Rec1(<<"user">>, ann)),
      Rec1(<<"data">>, Null) }

\* The extraction paths a configuration may give
PathOptions ==
    { [login_dataKey |-> <<>>, tokenPath |-> <<>>, refreshTokenPath |-> <<>>,
       profile_dataKey |-> <<>>],
      [login_dataKey |-> <<"result">>, tokenPath |-> <<"data", ".", "jwt">>,
       refreshTokenPath |-> <<"data", ".", "refresh">>,
       profile_dataKey |-> <<"data", ".", "user">>] }

Options ==
    { [useRefreshToken |-> u, router |-> r, storage |-> s, defaultRedirect |-> d,
       login_dataKey |-> p.login_dataKey, tokenPath |-> p.tokenPath,
       refreshTokenPath |-> p.refreshTokenPath, profile_dataKey |-> p.profile_dataKey] :
         u \in BOOLEAN, r \in BOOLEAN, s \in {"", "local", "cookie"},
         d \in {<<>>, <<"/home">>}, p \in PathOptions }

\* The route table: fullPath and the AuthMeta of each route
Route(path, requiresAuth, guestOnly, redirectTo) ==
    [fullPath |-> path, requiresAuth |-> requiresAuth, guestOnly |-> guestOnly,
     redirectTo |-> redirectTo]
NoRoute == Route(<<>>, FALSE, FALSE, <<>>)
Routes ==
    { Route(<<"/dashboard">>, TRUE, FALSE, <<>>),
      Route(<<"/login">>, FALSE, TRUE, <<>>),
      Route(<<"/about">>, FALSE, FALSE, <<>>),
      Route(<<"/admin">>, TRUE, FALSE, <<"/login">>),
      Route(<<"/register">>, FALSE, TRUE, <<"/about">>),
      Route(<<"/promo">>, TRUE, TRUE, <<>>) }

\* The route a path resolves to: a path outside the table has no meta
RouteAt(path) ==
    IF \E r \in Routes : r.fullPath = path
    THEN CHOOSE r \in Routes : r.fullPath = path
    ELSE Route(path, FALSE, FALSE, <<>>)

-----------------------------------------------------------------------------
(* Async calls.  A slot holds one call: its operation, where it is         *)
(* suspended, its locals, and (for the properties) the token store as it   *)
(* was when the call was made.                                             *)

NoSnapshot == [token |-> Undef]
\* Kept for calls made one at a time only: it is what their before/after
\* properties compare with.
Snapshot ==
    IF overlap THEN NoSnapshot
    ELSE [token |-> token, refreshToken |-> refreshToken, store |-> store,
          redirect |-> _redirectAfterLogin]

Idle ==
    [op |-> "idle", pc |-> "idle", to |-> NoRoute, arg |-> Undef, req |-> Undef,
     res |-> Undef, jwt |-> Undef, refresh |-> Undef, refreshed |-> Undef,
     pushed |-> Undef, ret |-> Undef, thrown |-> FALSE, pre |-> NoSnapshot,
     superseded |-> FALSE, loggedOut |-> "no", hops |-> 0]

Call(op) == [Idle EXCEPT !.op = op, !.pre = Snapshot]

\* Mutant: the token is the one held when the interceptor was registered
\* (none)
interceptor_atRegistration == Undef

\* The request interceptor: the headers of a request dispatched now
interceptor ==
    IF Truthy(getToken) THEN Str(<<"Bearer", " ">> \o getToken.s) ELSE Undef

\* httpInstance.post(url, data) / get(url) as dispatched
Request(method, url, data) ==
    [t |-> "request", method |-> method, url |-> url, data |-> data,
     Authorization |-> interceptor]

\* next() and next({ path })
Allow == [t |-> "next"]
Redirect(path) == [t |-> "next", path |-> path]

\* What a step of one call means for another call in flight (kept for the
\* properties): a guard evaluation is superseded when a newer navigation
\* reaches the guard; a request unresolved when logout() is called was
\* issued before that logout ("called"), which then completes while the
\* request is still unresolved ("completed").
Overtaken(other, before, after) ==
    [other EXCEPT
        !.superseded = @ \/ (/\ after.op = "guard" /\ before.pc = "idle"
                             /\ other.op = "guard" /\ other.pc # "done"),
        !.loggedOut =
            IF other.pc \notin {"login_post", "refresh_post"} \/ after.op # "logout"
            THEN @
            ELSE IF before.pc = "idle" /\ @ = "no" THEN "called"
            ELSE IF before.pc = "logout_clearToken" /\ after.pc = "done"
                    /\ ~after.thrown /\ @ = "called"
                 THEN "completed"
            ELSE @]

\* The call in slot i moves on to tk
Put(i, tk) ==
    tasks' = [k \in Slots |-> IF k = i THEN tk ELSE Overtaken(tasks[k], tasks[i], tk)]

AllIdle == \A i \in Slots : tasks[i].op = "idle"
HydrationPending == hydration.token # <<>> \/ hydration.refresh # <<>>
\* Nothing is in flight: no call, and construction has settled
Quiescent == AllIdle /\ hydration.settled
\* Calls take the lowest free slot; callers that do not overlap their calls
\* make one only when nothing is in flight
Free(i) ==
    /\ tasks[i].op = "idle"
    /\ \A j \in 1..(i - 1) : tasks[j].op # "idle"
    /\ overlap \/ Quiescent

-----------------------------------------------------------------------------
(* Construction and hydration *)

\* The Promise.all of createAuthInstance: each storageAPI.get is called at
\* construction and its .then callback runs later, or never when the get is
\* rejected.  roundTrip remembers, for
\* the round-trip property, the argument of a setToken that had just
\* completed when the store was constructed again.
\* Mutant: the refresh token is read whether or not refresh mode is on
Hydration_always(st, roundTrip) ==
    [token |-> <<storageGet(st, tokenKey)>>,
     refresh |-> <<storageGet(st, refreshTokenKey)>>,
     settled |-> FALSE,
     roundTrip |-> roundTrip]

Hydration(st, roundTrip) ==
    [token |-> IF storageRejects THEN <<>> ELSE <<storageGet(st, tokenKey)>>,
     refresh |-> IF useRefreshToken /\ ~storageRejects
                 THEN <<storageGet(st, refreshTokenKey)>> ELSE <<>>,
     settled |-> FALSE,
     roundTrip |-> roundTrip]

Construct ==
    /\ options \in Options
    /\ cookieStoreAvailable \in BOOLEAN
    /\ options.storage # "cookie" => cookieStoreAvailable
    /\ token = Null
    /\ refreshToken = Null
    /\ store \in { [k \in Keys |-> IF k = tokenKey THEN a ELSE b] :
                     a \in StoredTokens, b \in StoredRefreshTokens }
    /\ hydration = Hydration(store, Undef)
    /\ _redirectAfterLogin = Null
    /\ tasks = [i \in Slots |-> Idle]

\* One call at a time, each made on a store whose construction has settled
Init == overlap = FALSE /\ storageUnavailable = FALSE /\ Construct

\* The same callers, with a backend whose every call throws
InitDown == overlap = FALSE /\ storageUnavailable = TRUE /\ Construct

\* Calls overlap with each other and with hydration (default paths, session
\* storage)
InitConc ==
    /\ overlap = TRUE
    /\ storageUnavailable = FALSE
    /\ Construct
    /\ options.storage = ""
    /\ options.tokenPath = <<>>
    /\ options.defaultRedirect = <<>>
    /\ options.router
    /\ options.useRefreshToken

\* storageAPI.get(tokenKey).then(value => auth.token = value)
HydrateToken ==
    /\ hydration.token # <<>>
    /\ token' = hydration.token[1]
    /\ hydration' = [hydration EXCEPT !.token = <<>>]
    /\ UNCHANGED <<overlap, options, cookieStoreAvailable, storageUnavailable, refreshToken, store,
                   _redirectAfterLogin, tasks>>

\* storageAPI.get(refreshTokenKey).then(value => auth.refreshToken = value)
HydrateRefreshToken ==
    /\ hydration.refresh # <<>>
    /\ refreshToken' = hydration.refresh[1]
    /\ hydration' = [hydration EXCEPT !.refresh = <<>>]
    /\ UNCHANGED <<overlap, options, cookieStoreAvailable, storageUnavailable, token, store,
                   _redirectAfterLogin, tasks>>

\* The Promise.all settles once both callbacks have run
HydrationSettled ==
    /\ ~HydrationPending
    /\ ~hydration.settled
    /\ hydration' = [hydration EXCEPT !.settled = TRUE, !.roundTrip = Undef]
    /\ UNCHANGED <<overlap, options, cookieStoreAvailable, storageUnavailable, token, refreshToken, store,
                   _redirectAfterLogin, tasks>>

\* The page is loaded again: the module state is fresh, the backend is kept.
createAuthInstance ==
    /\ hydration.settled
    /\ \A i \in Slots : tasks[i].pc \in {"idle", "done"}
    /\ LET done == {i \in Slots : tasks[i].op # "idle"}
           last == IF \E i \in done : done = {i} /\ tasks[i].op = "setToken"
                   THEN (CHOOSE i \in done : TRUE) ELSE 0
       IN  hydration' = Hydration(store, IF last = 0 THEN Undef ELSE tasks[last].arg)
    /\ token' = Null
    /\ refreshToken' = Null
    /\ _redirectAfterLogin' = Null
    /\ tasks' = [i \in Slots |-> Idle]
    /\ UNCHANGED <<overlap, options, cookieStoreAvailable, storageUnavailable, store>>

-----------------------------------------------------------------------------
(* Token Store methods called directly *)

CallSetToken(i, t) ==
    /\ Free(i)
    /\ setToken(t)
    /\ Put(i, [Call("setToken") EXCEPT !.arg = Str(t), !.pc = "done",
                                       !.thrown = storageRejects])
    /\ UNCHANGED <<overlap, options, cookieStoreAvailable, storageUnavailable, refreshToken, hydration,
                   _redirectAfterLogin>>

CallSetRefreshToken(i, t) ==
    /\ Free(i)
    /\ setRefreshToken(t)
    /\ Put(i, [Call("setRefreshToken") EXCEPT !.arg = Str(t), !.pc = "done",
                                              !.thrown = useRefreshToken /\ storageRejects])
    /\ UNCHANGED <<overlap, options, cookieStoreAvailable, storageUnavailable, token, hydration,
                   _redirectAfterLogin>>

CallClearToken(i) ==
    /\ Free(i)
    /\ clearToken
    /\ Put(i, [Call("clearToken") EXCEPT !.pc = "done", !.thrown = storageRejects])
    /\ UNCHANGED <<overlap, options, cookieStoreAvailable, storageUnavailable, refreshToken, hydration,
                   _redirectAfterLogin>>

CallClearRefreshToken(i) ==
    /\ Free(i)
    /\ clearRefreshToken
    /\ Put(i, [Call("clearRefreshToken") EXCEPT !.pc = "done",
                                                !.thrown = useRefreshToken /\ storageRejects])
    /\ UNCHANGED <<overlap, options, cookieStoreAvailable, storageUnavailable, token, hydration,
                   _redirectAfterLogin>>

-----------------------------------------------------------------------------
(* login *)

\* const res = await httpInstance.post(loginUrl, credentials)
CallLogin(i) ==
    /\ Free(i)
    /\ Put(i, [Call("login") EXCEPT !.pc = "login_post",
                                    !.req = Request("post", loginUrl, Undef)])
    /\ UNCHANGED <<overlap, options, cookieStoreAvailable, storageUnavailable, token, refreshToken, store,
                   hydration, _redirectAfterLogin>>

\* Mutant: a failed login ends the session, as a failed refresh does
LoginRejected_loggingOut(i) ==
    /\ tasks[i].pc = "login_post"
    /\ clearToken
    /\ Put(i, [tasks[i] EXCEPT !.pc = "done", !.res = Failure, !.thrown = TRUE])
    /\ UNCHANGED <<overlap, options, cookieStoreAvailable, storageUnavailable, refreshToken,
                   hydration, _redirectAfterLogin>>

\* The post rejects: login has no catch, the failure reaches the caller.
LoginRejected(i) ==
    /\ tasks[i].pc = "login_post"
    /\ Put(i, [tasks[i] EXCEPT !.pc = "done", !.res = Failure, !.thrown = TRUE])
    /\ UNCHANGED <<overlap, options, cookieStoreAvailable, storageUnavailable, token, refreshToken, store,
                   hydration, _redirectAfterLogin>>

loginPayload(data) == IF loginDataKey # <<>> THEN getByPath(data, loginDataKey) ELSE data

\* Mutant: login always navigates to the default
LoginFinish_default(i, tk) ==
    /\ Put(i, [tk EXCEPT !.pc = "done", !.ret = tk.res,
                         !.pushed = IF router THEN Str(defaultRedirect) ELSE Undef])
    /\ _redirectAfterLogin' = IF router THEN Null ELSE _redirectAfterLogin

\* Mutant: the pending redirect is used but not cleared
LoginFinish_keepRedirect(i, tk) ==
    /\ Put(i, [tk EXCEPT !.pc = "done", !.ret = tk.res,
                         !.pushed = IF router
                                    THEN OrElse(_redirectAfterLogin, Str(defaultRedirect))
                                    ELSE Undef])
    /\ _redirectAfterLogin' = _redirectAfterLogin

\* if (router) { target = _redirectAfterLogin || defaultRedirect; ... } return res.data
LoginFinish(i, tk) ==
    /\ Put(i, [tk EXCEPT !.pc = "done", !.ret = tk.res,
                         !.pushed = IF router
                                    THEN OrElse(_redirectAfterLogin, Str(defaultRedirect))
                                    ELSE Undef])
    /\ _redirectAfterLogin' = IF router THEN Null ELSE _redirectAfterLogin

\* if (useRefreshToken) { refresh = getByPath(payload, refreshTokenPath); ... }
LoginRefreshPart(i, tk) ==
    LET refresh == IF useRefreshToken
                   THEN getByPath(loginPayload(tk.res), refreshTokenPath) ELSE Undef
    IN  IF useRefreshToken /\ Truthy(refresh)
        THEN /\ setRefreshToken(refresh.s)
             /\ Put(i, [tk EXCEPT !.pc = "login_setRefreshToken", !.refresh = refresh])
             /\ UNCHANGED <<token, _redirectAfterLogin>>
        ELSE /\ LoginFinish(i, [tk EXCEPT !.refresh = refresh])
             /\ UNCHANGED <<token, refreshToken, store>>

\* Mutant: a response without a token clears the token held
LoginResolved_clearing(i, data) ==
    /\ tasks[i].pc = "login_post"
    /\ LET jwt == getByPath(loginPayload(data), tokenPath)
           tk == [tasks[i] EXCEPT !.res = data, !.jwt = jwt]
       IN  IF Truthy(jwt)
           THEN /\ setToken(jwt.s)
                /\ Put(i, [tk EXCEPT !.pc = "login_setToken"])
                /\ UNCHANGED <<refreshToken, _redirectAfterLogin>>
           ELSE /\ clearToken
                /\ Put(i, [tk EXCEPT !.pc = "login_setToken"])
                /\ UNCHANGED <<refreshToken, _redirectAfterLogin>>
    /\ UNCHANGED <<overlap, options, cookieStoreAvailable, storageUnavailable, hydration>>

\* The post resolves with a body: extract the token, setToken if there is one.
LoginResolved(i, data) ==
    /\ tasks[i].pc = "login_post"
    /\ LET jwt == getByPath(loginPayload(data), tokenPath)
           tk == [tasks[i] EXCEPT !.res = data, !.jwt = jwt]
       IN  IF Truthy(jwt)
           THEN /\ setToken(jwt.s)
                /\ Put(i, [tk EXCEPT !.pc = "login_setToken"])
                /\ UNCHANGED <<refreshToken, _redirectAfterLogin>>
           ELSE LoginRefreshPart(i, tk)
    /\ UNCHANGED <<overlap, options, cookieStoreAvailable, storageUnavailable, hydration>>

\* An awaited Token Store call was rejected: the method has no catch
Throw(i) ==
    /\ Put(i, [tasks[i] EXCEPT !.pc = "done", !.thrown = TRUE])
    /\ UNCHANGED <<token, refreshToken, store, _redirectAfterLogin>>

\* await auth.setToken(jwt) resumes
LoginAfterSetToken(i) ==
    /\ tasks[i].pc = "login_setToken"
    /\ IF storageRejects THEN Throw(i) ELSE LoginRefreshPart(i, tasks[i])
    /\ UNCHANGED <<overlap, options, cookieStoreAvailable, storageUnavailable, hydration>>

\* await auth.setRefreshToken(refresh) resumes
LoginAfterSetRefreshToken(i) ==
    /\ tasks[i].pc = "login_setRefreshToken"
    /\ IF storageRejects THEN Throw(i)
       ELSE LoginFinish(i, tasks[i]) /\ UNCHANGED <<token, refreshToken, store>>
    /\ UNCHANGED <<overlap, options, cookieStoreAvailable, storageUnavailable, hydration>>

-----------------------------------------------------------------------------
(* logout *)

\* await auth.clearToken()
CallLogout(i) ==
    /\ Free(i)
    /\ clearToken
    /\ Put(i, [Call("logout") EXCEPT !.pc = "logout_clearToken"])
    /\ UNCHANGED <<overlap, options, cookieStoreAvailable, storageUnavailable, refreshToken, hydration,
                   _redirectAfterLogin>>

\* await auth.clearToken() resumes: await auth.clearRefreshToken(), after
\* which logout only returns
LogoutAfterClearToken(i) ==
    /\ tasks[i].pc = "logout_clearToken"
    /\ IF storageRejects THEN Throw(i)
       ELSE /\ clearRefreshToken
            /\ Put(i, [tasks[i] EXCEPT !.pc = "done"])
            /\ UNCHANGED <<token, _redirectAfterLogin>>
    /\ UNCHANGED <<overlap, options, cookieStoreAvailable, storageUnavailable, hydration>>

-----------------------------------------------------------------------------
(* tryRefreshToken, called directly or by the guard *)

\* tryRefreshToken returns value: a direct call is over; the guard, which
\* awaits it, resumes in a later step.
RefreshReturn(i, tk, value) ==
    IF tk.op = "guard"
    THEN Put(i, [tk EXCEPT !.pc = "guard_refreshed", !.refreshed = Bool(value)])
    ELSE Put(i, [tk EXCEPT !.pc = "done", !.ret = Bool(value)])

\* Mutant: the post is made whether or not a refresh token is held
TryRefreshToken_unguarded(i, tk) ==
    IF ~useRefreshToken
    THEN RefreshReturn(i, tk, FALSE)
    ELSE Put(i, [tk EXCEPT !.pc = "refresh_post",
                           !.req = Request("post", refreshUrl,
                                           Rec1(<<"refresh_token">>, refreshToken))])

\* if (!useRefreshToken || !auth.refreshToken) return false; else post
TryRefreshToken(i, tk) ==
    IF ~useRefreshToken \/ ~Truthy(refreshToken)
    THEN RefreshReturn(i, tk, FALSE)
    ELSE Put(i, [tk EXCEPT !.pc = "refresh_post",
                           !.req = Request("post", refreshUrl,
                                           Rec1(<<"refresh_token">>, refreshToken))])

CallTryRefreshToken(i) ==
    /\ Free(i)
    /\ TryRefreshToken(i, Call("tryRefreshToken"))
    /\ UNCHANGED <<overlap, options, cookieStoreAvailable, storageUnavailable, token, refreshToken, store,
                   hydration, _redirectAfterLogin>>

\* Mutant: a response without a token is taken for a failure and ends the
\* session
RefreshResolved_strict(i, data) ==
    /\ tasks[i].pc = "refresh_post"
    /\ LET newToken == getByPath(data, tokenPath)
           tk == [tasks[i] EXCEPT !.res = data, !.jwt = newToken]
       IN  IF Truthy(newToken)
           THEN /\ setToken(newToken.s)
                /\ RefreshReturn(i, tk, TRUE)
           ELSE /\ clearToken
                /\ Put(i, [tk EXCEPT !.pc = "refresh_logout"])
    /\ UNCHANGED <<overlap, options, cookieStoreAvailable, storageUnavailable,
                   refreshToken, hydration, _redirectAfterLogin>>

\* The post resolves: newToken = getByPath(res.data, tokenPath)
RefreshResolved(i, data) ==
    /\ tasks[i].pc = "refresh_post"
    /\ LET newToken == getByPath(data, tokenPath)
           tk == [tasks[i] EXCEPT !.res = data, !.jwt = newToken]
       IN  IF Truthy(newToken)
           THEN /\ setToken(newToken.s)
                /\ IF storageRejects
                   THEN Put(i, [tk EXCEPT !.pc = "refresh_setToken"])
                   ELSE RefreshReturn(i, tk, TRUE)
           ELSE /\ RefreshReturn(i, tk, FALSE)
                /\ UNCHANGED <<token, store>>
    /\ UNCHANGED <<overlap, options, cookieStoreAvailable, storageUnavailable, refreshToken, hydration,
                   _redirectAfterLogin>>

\* await auth.setToken(newToken) was rejected inside the try:
\* catch (err) { await auth.logout() }, first clearToken
RefreshSetTokenRejected(i) ==
    /\ tasks[i].pc = "refresh_setToken"
    /\ clearToken
    /\ Put(i, [tasks[i] EXCEPT !.pc = "refresh_logout"])
    /\ UNCHANGED <<overlap, options, cookieStoreAvailable, storageUnavailable, refreshToken, hydration,
                   _redirectAfterLogin>>

\* Mutant: the failure is noted, the access token is not cleared with it
RefreshRejected_keepToken(i) ==
    /\ tasks[i].pc = "refresh_post"
    /\ Put(i, [tasks[i] EXCEPT !.pc = "refresh_logout", !.res = Failure])
    /\ UNCHANGED <<overlap, options, cookieStoreAvailable, storageUnavailable, token,
                   store, refreshToken, hydration, _redirectAfterLogin>>

\* The post rejects: catch (err) { await auth.logout() }, first clearToken
RefreshRejected(i) ==
    /\ tasks[i].pc = "refresh_post"
    /\ clearToken
    /\ Put(i, [tasks[i] EXCEPT !.pc = "refresh_logout", !.res = Failure])
    /\ UNCHANGED <<overlap, options, cookieStoreAvailable, storageUnavailable, refreshToken, hydration,
                   _redirectAfterLogin>>

\* Mutant: the catch clears the access token only
RefreshAfterClearToken_keepRefresh(i) ==
    /\ tasks[i].pc = "refresh_logout"
    /\ UNCHANGED <<refreshToken, store>>
    /\ RefreshReturn(i, tasks[i], FALSE)
    /\ UNCHANGED <<overlap, options, cookieStoreAvailable, storageUnavailable, token, hydration,
                   _redirectAfterLogin>>

\* logout's clearRefreshToken, then return false; a rejected clearToken
\* rejects logout, and with it tryRefreshToken and a guard that awaits it
RefreshAfterClearToken(i) ==
    /\ tasks[i].pc = "refresh_logout"
    /\ IF storageRejects THEN Throw(i)
       ELSE /\ clearRefreshToken
            /\ RefreshReturn(i, tasks[i], FALSE)
            /\ UNCHANGED <<token, _redirectAfterLogin>>
    /\ UNCHANGED <<overlap, options, cookieStoreAvailable, storageUnavailable, hydration>>

-----------------------------------------------------------------------------
(* user, and requests the application makes through auth.http() *)

\* if (!auth.token) return null; else await httpInstance.get(profileUrl)
CallUser(i) ==
    /\ Free(i)
    /\ IF ~Truthy(token)
       THEN Put(i, [Call("user") EXCEPT !.pc = "done", !.ret = Null])
       ELSE Put(i, [Call("user") EXCEPT !.pc = "user_get",
                                       !.req = Request("get", profileUrl, Undef)])
    /\ UNCHANGED <<overlap, options, cookieStoreAvailable, storageUnavailable, token, refreshToken, store,
                   hydration, _redirectAfterLogin>>

\* Mutant: the whole body is returned whatever profile.dataKey is
UserResolved_wholeBody(i, data) ==
    /\ tasks[i].pc = "user_get"
    /\ Put(i, [tasks[i] EXCEPT !.pc = "done", !.res = data, !.ret = data])
    /\ UNCHANGED <<overlap, options, cookieStoreAvailable, storageUnavailable, token, refreshToken, store,
                   hydration, _redirectAfterLogin>>

\* return profileDataKey ? getByPath(res.data, profileDataKey) : res.data
UserResolved(i, data) ==
    /\ tasks[i].pc = "user_get"
    /\ Put(i, [tasks[i] EXCEPT !.pc = "done", !.res = data,
                               !.ret = IF profileDataKey # <<>>
                                       THEN getByPath(data, profileDataKey) ELSE data])
    /\ UNCHANGED <<overlap, options, cookieStoreAvailable, storageUnavailable, token, refreshToken, store,
                   hydration, _redirectAfterLogin>>

\* catch (err) { return null }
UserRejected(i) ==
    /\ tasks[i].pc = "user_get"
    /\ Put(i, [tasks[i] EXCEPT !.pc = "done", !.res = Failure, !.ret = Null])
    /\ UNCHANGED <<overlap, options, cookieStoreAvailable, storageUnavailable, token, refreshToken, store,
                   hydration, _redirectAfterLogin>>

\* auth.http().get(url): the request passes the interceptor as it is dispatched
CallHttp(i) ==
    /\ Free(i)
    /\ Put(i, [Call("http") EXCEPT !.pc = "done",
                                   !.req = Request("get", <<"/api/data">>, Undef)])
    /\ UNCHANGED <<overlap, options, cookieStoreAvailable, storageUnavailable, token, refreshToken, store,
                   hydration, _redirectAfterLogin>>

-----------------------------------------------------------------------------
(* The beforeEach guard installed by createAuth().install *)

\* meta.redirectTo || options.defaultRedirect || '/dashboard'
redirectTo(to) == IF to.redirectTo # <<>> THEN to.redirectTo ELSE defaultRedirect

\* Mutant: guestOnly is not looked at
GuardTail_ignoreGuestOnly(i, tk) == Put(i, [tk EXCEPT !.pc = "done", !.ret = Allow])

\* if (guestOnly && auth.isAuthenticated()) return next({ path }); next()
GuardTail(i, tk) ==
    Put(i, [tk EXCEPT !.pc = "done",
                      !.ret = IF tk.to.guestOnly /\ isAuthenticated
                              THEN Redirect(redirectTo(tk.to)) ELSE Allow])

\* if (requiresAuth && !auth.isAuthenticated()) { await tryRefreshToken() ... }
Guard(i, tk) ==
    IF tk.to.requiresAuth /\ ~isAuthenticated
    THEN TryRefreshToken(i, tk)
    ELSE GuardTail(i, tk)

\* A navigation to route `to` reaches the guard
CallGuard(i, to) ==
    /\ router
    /\ Free(i)
    /\ Guard(i, [Call("guard") EXCEPT !.to = to])
    /\ UNCHANGED <<overlap, options, cookieStoreAvailable, storageUnavailable, token, refreshToken, store,
                   hydration, _redirectAfterLogin>>

\* The router follows next({ path }): the navigation goes on to the route at
\* path, which reaches the guard in its turn
Redirected(i) ==
    /\ tasks[i].op = "guard"
    /\ tasks[i].pc = "done"
    /\ ~tasks[i].thrown
    /\ "path" \in DOMAIN tasks[i].ret
    /\ tasks[i].hops < MaxHops
    /\ Guard(i, [Call("guard") EXCEPT !.to = RouteAt(tasks[i].ret.path),
                                      !.hops = tasks[i].hops + 1])
    /\ UNCHANGED <<overlap, options, cookieStoreAvailable, storageUnavailable, token, refreshToken, store,
                   hydration, _redirectAfterLogin>>

\* Mutant: the guard refuses whatever the refresh returned
GuardAfterRefresh_ignoreResult(i) ==
    /\ tasks[i].pc = "guard_refreshed"
    /\ _redirectAfterLogin' = Str(tasks[i].to.fullPath)
    /\ Put(i, [tasks[i] EXCEPT !.pc = "done",
                               !.ret = Redirect(redirectTo(tasks[i].to))])
    /\ UNCHANGED <<overlap, options, cookieStoreAvailable, storageUnavailable, token, refreshToken, store,
                   hydration>>

\* const refreshed = await auth.tryRefreshToken() resumes
GuardAfterRefresh(i) ==
    /\ tasks[i].pc = "guard_refreshed"
    /\ IF ~tasks[i].refreshed.b
       THEN /\ _redirectAfterLogin' = Str(tasks[i].to.fullPath)
            /\ Put(i, [tasks[i] EXCEPT !.pc = "done",
                                       !.ret = Redirect(redirectTo(tasks[i].to))])
       ELSE /\ GuardTail(i, tasks[i])
            /\ UNCHANGED _redirectAfterLogin
    /\ UNCHANGED <<overlap, options, cookieStoreAvailable, storageUnavailable, token, refreshToken, store, hydration>>

-----------------------------------------------------------------------------
(* The machine *)

\* The caller has its result; the slot is free again
Return(i) ==
    /\ tasks[i].pc = "done"
    /\ Put(i, Idle)
    /\ UNCHANGED <<overlap, options, cookieStoreAvailable, storageUnavailable, token, refreshToken, store,
                   hydration, _redirectAfterLogin>>

Next ==
    \/ \E i \in Slots, t \in TokenArgs : CallSetToken(i, t)
    \/ \E i \in Slots, t \in RefreshArgs : CallSetRefreshToken(i, t)
    \/ \E i \in Slots : CallClearToken(i)
    \/ \E i \in Slots : CallClearRefreshToken(i)
    \/ \E i \in Slots : CallLogin(i)
    \/ \E i \in Slots : LoginRejected(i)
    \/ \E i \in Slots, data \in LoginBodies : LoginResolved(i, data)
    \/ \E i \in Slots : LoginAfterSetToken(i)
    \/ \E i \in Slots : LoginAfterSetRefreshToken(i)
    \/ \E i \in Slots : CallLogout(i)
    \/ \E i \in Slots : LogoutAfterClearToken(i)
    \/ \E i \in Slots : CallTryRefreshToken(i)
    \/ \E i \in Slots, data \in RefreshBodies : RefreshResolved(i, data)
    \/ \E i \in Slots : RefreshRejected(i)
    \/ \E i \in Slots : RefreshAfterClearToken(i)
    \/ \E i \in Slots, to \in Routes : CallGuard(i, to)
    \/ \E i \in Slots : GuardAfterRefresh(i)
    \/ \E i \in Slots : Redirected(i)
    \/ \E i \in Slots : CallUser(i)
    \/ \E i \in Slots, data \in ProfileBodies : UserResolved(i, data)
    \/ \E i \in Slots : UserRejected(i)
    \/ \E i \in Slots : CallHttp(i)
    \/ \E i \in Slots : Return(i)
    \/ HydrateToken
    \/ HydrateRefreshToken
    \/ HydrationSettled
    \/ createAuthInstance

Spec == Init /\ [][Next]_vars

\* The inputs of the overlapping calls
ConcTokenArgs == {abc123}
ConcLoginBodies == {Rec2(<<"token">>, Str(abc123), <<"refresh_token">>, Str(r1))}
ConcRefreshBodies == {Rec1(<<"token">>, Str(padded)), Empty}
ConcRoutes ==
    { Route(<<"/dashboard">>, TRUE, FALSE, <<>>),
      Route(<<"/admin">>, TRUE, FALSE, <<"/login">>) }

NextConc ==
    \/ \E i \in Slots, t \in ConcTokenArgs : CallSetToken(i, t)
    \/ \E i \in Slots : CallClearToken(i)
    \/ \E i \in Slots : CallLogin(i)
    \/ \E i \in Slots : LoginRejected(i)
    \/ \E i \in Slots, data \in ConcLoginBodies : LoginResolved(i, data)
    \/ \E i \in Slots : LoginAfterSetToken(i)
    \/ \E i \in Slots : LoginAfterSetRefreshToken(i)
    \/ \E i \in Slots : CallLogout(i)
    \/ \E i \in Slots : LogoutAfterClearToken(i)
    \/ \E i \in Slots : CallTryRefreshToken(i)
    \/ \E i \in Slots, data \in ConcRefreshBodies : RefreshResolved(i, data)
    \/ \E i \in Slots : RefreshRejected(i)
    \/ \E i \in Slots : RefreshAfterClearToken(i)
    \/ \E i \in Slots, to \in ConcRoutes : CallGuard(i, to)
    \/ \E i \in Slots : GuardAfterRefresh(i)
    \/ \E i \in Slots : Return(i)
    \/ HydrateToken
    \/ HydrateRefreshToken
    \/ HydrationSettled

SpecConc == InitConc /\ [][NextConc]_vars

\* With the backend unavailable no hydration callback ever runs
NextDown ==
    \/ \E i \in Slots, t \in TokenArgs : CallSetToken(i, t)
    \/ \E i \in Slots, t \in RefreshArgs : CallSetRefreshToken(i, t)
    \/ \E i \in Slots : CallClearToken(i)
    \/ \E i \in Slots : CallClearRefreshToken(i)
    \/ \E i \in Slots : CallLogin(i)
    \/ \E i \in Slots : LoginRejected(i)
    \/ \E i \in Slots, data \in LoginBodies : LoginResolved(i, data)
    \/ \E i \in Slots : LoginAfterSetToken(i)
    \/ \E i \in Slots : LoginAfterSetRefreshToken(i)
    \/ \E i \in Slots : CallLogout(i)
    \/ \E i \in Slots : LogoutAfterClearToken(i)
    \/ \E i \in Slots : CallTryRefreshToken(i)
    \/ \E i \in Slots, data \in RefreshBodies : RefreshResolved(i, data)
    \/ \E i \in Slots : RefreshSetTokenRejected(i)
    \/ \E i \in Slots : RefreshRejected(i)
    \/ \E i \in Slots : RefreshAfterClearToken(i)
    \/ \E i \in Slots, to \in Routes : CallGuard(i, to)
    \/ \E i \in Slots : GuardAfterRefresh(i)
    \/ \E i \in Slots : Return(i)
    \/ HydrationSettled
    \/ createAuthInstance

SpecDown == InitDown /\ [][NextDown]_vars

-----------------------------------------------------------------------------
(* The Path Extractor on its own: getByPath applied to payloads and paths  *)
(* that no configuration above gives it                                    *)

\* 'a.b.c' from its segments
RECURSIVE JoinDots(_)
JoinDots(segs) ==
    IF segs = <<>> THEN <<>>
    ELSE IF Len(segs) = 1 THEN Head(segs)
    ELSE Head(segs) \o <<".">> \o JoinDots(Tail(segs))

ka == <<"a">>
kb == <<"b">>
kc == <<"c">>
SegmentLists ==
    { <<>>, <<ka>>, <<kb>>, <<kc>>, <<ka, kb>>, <<kb, ka>>, <<ka, kc>>, <<ka, kb, kc>> }

x1 == Str(<<"x1">>)
Payloads ==
    { Rec1(ka, x1),
      Rec1(ka, Rec1(kb, x1)),
      Rec2(ka, Rec1(kb, Rec1(kc, x1)), kb, Rec1(ka, Null)),
      Rec2(ka, Null, kb, Undef),
      Rec1(ka, Rec2(kb, Null, kc, Bool(FALSE))),
      Empty,
      Null,
      Undef }

\* The arguments of a call getByPath(obj, path); segments is the list of
\* names the path was written from
Arguments(obj, segs) ==
    [t |-> "arguments", obj |-> obj, path |-> JoinDots(segs), segments |-> segs]

InitPath ==
    /\ overlap = FALSE
    /\ storageUnavailable = FALSE
    /\ options = [useRefreshToken |-> FALSE, router |-> FALSE, storage |-> "",
                  defaultRedirect |-> <<>>, login_dataKey |-> <<>>, tokenPath |-> <<>>,
                  refreshTokenPath |-> <<>>, profile_dataKey |-> <<>>]
    /\ cookieStoreAvailable = TRUE
    /\ token = Null
    /\ refreshToken = Null
    /\ store = [k \in Keys |-> Null]
    /\ hydration = [token |-> <<>>, refresh |-> <<>>, settled |-> TRUE,
                    roundTrip |-> Undef]
    /\ _redirectAfterLogin = Null
    /\ \E obj \in Payloads, segs \in SegmentLists :
           tasks = [i \in Slots |->
                       IF i = 1
                       THEN [Idle EXCEPT !.op = "getByPath", !.pc = "call",
                                         !.arg = Arguments(obj, segs)]
                       ELSE Idle]

\* return path.split('.').reduce((acc, part) => acc?.[part], obj)
ApplyGetByPath(i) ==
    /\ tasks[i].op = "getByPath"
    /\ tasks[i].pc = "call"
    /\ Put(i, [tasks[i] EXCEPT !.pc = "done",
                               !.ret = getByPath(tasks[i].arg.obj, tasks[i].arg.path)])
    /\ UNCHANGED <<overlap, options, cookieStoreAvailable, storageUnavailable, token,
                   refreshToken, store, hydration, _redirectAfterLogin>>

NextPath == \E i \in Slots : ApplyGetByPath(i)

SpecPath == InitPath /\ [][NextPath]_vars

-----------------------------------------------------------------------------
(* What the properties speak of *)

\* A completed call of operation op in slot i
Done(i, op) == tasks[i].op = op /\ tasks[i].pc = "done"

\* body.k, or undefined when body is no object or has no field k
Field(body, k) == IF body.t = "object" /\ k \in DOMAIN body.f THEN body.f[k] ELSE Undef

\* The access token a login response carries under the configuration in
\* force, read off field by field: body.token by default,
\* body.result.data.jwt with dataKey 'result' and tokenPath 'data.jwt'.
CarriedToken(body) ==
    IF options.tokenPath = <<>>
    THEN Field(body, <<"token">>)
    ELSE Field(Field(Field(body, <<"result">>), <<"data">>), <<"jwt">>)

\* Likewise the refresh token: body.refresh_token or body.result.data.refresh
CarriedRefreshToken(body) ==
    IF options.refreshTokenPath = <<>>
    THEN Field(body, <<"refresh_token">>)
    ELSE Field(Field(Field(body, <<"result">>), <<"data">>), <<"refresh">>)

\* A token is a non-empty string
IsToken(v) == v.t = "string" /\ v.s # <<>>

\* The token store is as it was when the call in slot i was made
StoreAsBefore(i) ==
    /\ token = tasks[i].pre.token
    /\ refreshToken = tasks[i].pre.refreshToken
    /\ store = tasks[i].pre.store

-----------------------------------------------------------------------------
\* C1: when login() has resolved on a response that carries a token at the
\* configured path (tokenPath under login.dataKey, or under the whole body),
\* isAuthenticated() is true and getToken() is exactly that token; with
\* dataKey 'result' and tokenPath 'data.jwt' the response
\* {result: {data: {jwt: 'abc123'}}} gives the token 'abc123'.
C1_LoginInstallsCarriedToken ==
    \A i \in Slots :
        Done(i, "login") /\ ~tasks[i].thrown /\ IsToken(CarriedToken(tasks[i].res))
        => /\ isAuthenticated
           /\ getToken = CarriedToken(tasks[i].res)
           /\ (options.login_dataKey = <<"result">>
                 => getToken = Str(<<"abc123">>))

C1_Witness ==
    \E i \in Slots :
        /\ Done(i, "login")
        /\ options.login_dataKey = <<"result">>
        /\ options.tokenPath = <<"data", ".", "jwt">>
        /\ tasks[i].res = Rec1(<<"result">>, Rec1(<<"data">>,
               Rec2(<<"jwt">>, Str(abc123), <<"refresh">>, Str(r1))))
        /\ getToken = Str(<<"abc123">>)

\* C2 as stated: when login() has resolved on a response with no access
\* token at the configured path, the token store (both tokens in memory, both
\* stored values) is as it was before the call, with refresh mode on or off,
\* and login() returned the raw body.
C2_Original ==
    \A i \in Slots :
        Done(i, "login") /\ ~tasks[i].thrown /\ ~IsToken(CarriedToken(tasks[i].res))
        => StoreAsBefore(i) /\ tasks[i].ret = tasks[i].res

\* C2 as amended: on such a response the access token, in memory and under
\* the token key, is as before and login() returns the raw body; the refresh
\* token is as before too unless refresh mode is on and the response carries
\* a refresh token at refreshTokenPath, which is then installed.
C2_NoAccessTokenLeavesAccessToken ==
    \A i \in Slots :
        Done(i, "login") /\ ~tasks[i].thrown /\ ~IsToken(CarriedToken(tasks[i].res))
        => /\ token = tasks[i].pre.token
           /\ store[tokenKey] = tasks[i].pre.store[tokenKey]
           /\ tasks[i].ret = tasks[i].res
           /\ IF useRefreshToken /\ IsToken(CarriedRefreshToken(tasks[i].res))
              THEN refreshToken = CarriedRefreshToken(tasks[i].res)
              ELSE StoreAsBefore(i)

C2_Witness ==
    \E i \in Slots :
        /\ Done(i, "login")
        /\ ~tasks[i].thrown
        /\ ~IsToken(CarriedToken(tasks[i].res))
        /\ IsToken(tasks[i].pre.token)
        /\ token = tasks[i].pre.token

\* C3: when logout() has completed, whatever the state it was called in,
\* both tokens are absent from memory and isAuthenticated() is false, and it
\* has raised nothing; called in the state a logout leaves (no token in
\* memory or under the keys it clears) it changes nothing.
C3_LogoutClearsSession ==
    \A i \in Slots :
        Done(i, "logout")
        => /\ token = Null
           /\ refreshToken = Null
           /\ ~isAuthenticated
           /\ ~tasks[i].thrown
           /\ store[tokenKey] = Null
           /\ (/\ tasks[i].pre.token = Null
               /\ tasks[i].pre.refreshToken = Null
               /\ tasks[i].pre.store[tokenKey] = Null
               /\ useRefreshToken => tasks[i].pre.store[refreshTokenKey] = Null)
              => StoreAsBefore(i)

C3_Witness ==
    \E i \in Slots :
        /\ Done(i, "logout")
        /\ IsToken(tasks[i].pre.token)
        /\ IsToken(tasks[i].pre.refreshToken)
        /\ token = Null
        /\ refreshToken = Null

\* C4 as stated: when a store constructed right after a completed
\* setToken(t), against the same backend and keys, has run its hydration
\* callbacks (and nothing else), getToken() is t and isAuthenticated() is
\* true.
C4_RoundTrip ==
    (~HydrationPending /\ ~hydration.settled /\ hydration.roundTrip # Undef)
    => getToken = hydration.roundTrip /\ isAuthenticated

\* C5 as stated: tryRefreshToken() is single-flight: while one invocation's
\* refresh request is unresolved, no other invocation has a request of its
\* own in flight.
C5_SingleFlight ==
    Cardinality({i \in Slots : tasks[i].pc = "refresh_post"}) <= 1

\* C6: a tryRefreshToken() called with refresh mode off, or with no refresh
\* token held, has returned false, has sent no request and has left the
\* token store as it was.
C6_RefreshDisabledIsNoOp ==
    \A i \in Slots :
        (/\ Done(i, "tryRefreshToken")
         /\ ~useRefreshToken \/ ~IsToken(tasks[i].pre.refreshToken))
        => /\ tasks[i].ret = Bool(FALSE)
           /\ tasks[i].req = Undef
           /\ tasks[i].res = Undef
           /\ StoreAsBefore(i)
           /\ _redirectAfterLogin = tasks[i].pre.redirect

C6_Witness ==
    \E i \in Slots :
        /\ Done(i, "tryRefreshToken")
        /\ useRefreshToken
        /\ tasks[i].pre.refreshToken = Null
        /\ IsToken(tasks[i].pre.token)
        /\ tasks[i].ret = Bool(FALSE)

\* The access token a refresh response carries: body.token by default,
\* body.data.jwt with tokenPath 'data.jwt'
CarriedNewToken(body) ==
    IF options.tokenPath = <<>>
    THEN Field(body, <<"token">>)
    ELSE Field(Field(body, <<"data">>), <<"jwt">>)

\* The refresh token was posted to the refresh endpoint by the call in slot i
PostedRefreshToken(i) ==
    /\ tasks[i].req # Undef
    /\ tasks[i].req.method = "post"
    /\ tasks[i].req.url = <<"/api/refresh">>
    /\ tasks[i].req.data = Rec1(<<"refresh_token">>, tasks[i].pre.refreshToken)

\* C7 as stated: a tryRefreshToken() called with refresh mode on and a
\* refresh token held has posted it to the refresh endpoint and has either
\* succeeded (new access token installed, true returned) or failed (both
\* tokens absent, false returned).
C7_Original ==
    \A i \in Slots :
        (/\ Done(i, "tryRefreshToken")
         /\ useRefreshToken /\ IsToken(tasks[i].pre.refreshToken))
        => /\ PostedRefreshToken(i)
           /\ \/ /\ tasks[i].ret = Bool(TRUE)
                 /\ IsToken(token) /\ token = CarriedNewToken(tasks[i].res)
              \/ /\ tasks[i].ret = Bool(FALSE)
                 /\ token = Null /\ refreshToken = Null

\* C7 as amended: such a call has posted the refresh token; on a response
\* carrying a token at tokenPath it has installed that token and returned
\* true; on a rejected request it has cleared both tokens and returned false;
\* on a response with no token at tokenPath it has returned false and left
\* both tokens as they were.
C7_RefreshOutcomes ==
    \A i \in Slots :
        (/\ Done(i, "tryRefreshToken")
         /\ useRefreshToken /\ IsToken(tasks[i].pre.refreshToken))
        => /\ PostedRefreshToken(i)
           /\ IF tasks[i].res = Failure
              THEN /\ tasks[i].ret = Bool(FALSE)
                   /\ token = Null /\ refreshToken = Null
                   /\ store[tokenKey] = Null /\ store[refreshTokenKey] = Null
              ELSE IF IsToken(CarriedNewToken(tasks[i].res))
              THEN /\ tasks[i].ret = Bool(TRUE)
                   /\ token = CarriedNewToken(tasks[i].res)
                   /\ refreshToken = tasks[i].pre.refreshToken
              ELSE /\ tasks[i].ret = Bool(FALSE)
                   /\ StoreAsBefore(i)

C7_Witness ==
    \E i \in Slots :
        /\ Done(i, "tryRefreshToken")
        /\ IsToken(tasks[i].pre.refreshToken)
        /\ IsToken(tasks[i].pre.token)
        /\ tasks[i].res = Failure
        /\ tasks[i].ret = Bool(FALSE)
        /\ token = Null
        /\ refreshToken = Null

\* Where the guard of a route redirects to: the route's redirectTo, or else
\* the configured default ('/dashboard' when none is configured)
ExpectedRedirect(to) ==
    IF to.redirectTo # <<>> THEN to.redirectTo
    ELSE IF options.defaultRedirect # <<>> THEN options.defaultRedirect
    ELSE <<"/dashboard">>

\* The guard in slot i was called with the session authenticated
WasAuthenticated(i) == IsToken(tasks[i].pre.token)

C9_Original ==
    \A i \in Slots :
        (Done(i, "guard") /\ tasks[i].to.guestOnly)
        => IF WasAuthenticated(i)
           THEN tasks[i].ret = Redirect(ExpectedRedirect(tasks[i].to))
           ELSE /\ tasks[i].ret = Allow
                /\ _redirectAfterLogin = tasks[i].pre.redirect

\* C9 as amended: the same, for a guestOnly route that does not also have
\* requiresAuth.
C9_GuestOnlyRoute ==
    \A i \in Slots :
        (Done(i, "guard") /\ tasks[i].to.guestOnly /\ ~tasks[i].to.requiresAuth)
        => IF WasAuthenticated(i)
           THEN tasks[i].ret = Redirect(ExpectedRedirect(tasks[i].to))
           ELSE /\ tasks[i].ret = Allow
                /\ _redirectAfterLogin = tasks[i].pre.redirect

C9_Witness ==
    \E i \in Slots :
        /\ Done(i, "guard")
        /\ tasks[i].to.fullPath = <<"/login">>
        /\ WasAuthenticated(i)
        /\ tasks[i].ret = Redirect(ExpectedRedirect(tasks[i].to))

\* A route with neither flag is allowed without a refresh attempt and
\* without a change of the pending redirect
PlainRouteAllowed(i) ==
    (Done(i, "guard") /\ ~tasks[i].to.requiresAuth /\ ~tasks[i].to.guestOnly)
    => /\ tasks[i].ret = Allow
       /\ tasks[i].req = Undef
       /\ tasks[i].refreshed = Undef
       /\ _redirectAfterLogin = tasks[i].pre.redirect

\* C10 as stated: a guard evaluation for a requiresAuth route has allowed the
\* navigation whenever the session was authenticated or the refresh attempt
\* succeeded, whatever guestOnly is; a route with neither flag is allowed.
C10_Original ==
    \A i \in Slots :
        /\ (/\ Done(i, "guard") /\ tasks[i].to.requiresAuth
            /\ WasAuthenticated(i) \/ tasks[i].refreshed = Bool(TRUE))
           => tasks[i].ret = Allow
        /\ PlainRouteAllowed(i)

\* C10 as amended: the same, for a requiresAuth route that does not also
\* have guestOnly.
C10_AllowRows ==
    \A i \in Slots :
        /\ (/\ Done(i, "guard") /\ tasks[i].to.requiresAuth /\ ~tasks[i].to.guestOnly
            /\ WasAuthenticated(i) \/ tasks[i].refreshed = Bool(TRUE))
           => tasks[i].ret = Allow
        /\ PlainRouteAllowed(i)

C10_Witness ==
    \E i \in Slots :
        /\ Done(i, "guard")
        /\ tasks[i].to.fullPath = <<"/dashboard">>
        /\ ~WasAuthenticated(i)
        /\ tasks[i].refreshed = Bool(TRUE)
        /\ tasks[i].ret = Allow

\* The configured default ('/dashboard' when none is configured)
ExpectedDefault ==
    IF options.defaultRedirect # <<>> THEN options.defaultRedirect ELSE <<"/dashboard">>

\* C11: the pending redirect is consumed exactly once: a login() that has
\* resolved (with a router) has navigated to the target the guard recorded,
\* or to the configured default when none was pending, and has cleared it, so
\* that a further login() finds none and navigates to the default; a login()
\* whose request failed has navigated nowhere and has left it as it was.
C11_PendingRedirectConsumedOnce ==
    \A i \in Slots :
        Done(i, "login")
        => IF tasks[i].thrown \/ ~router
           THEN /\ tasks[i].pushed = Undef
                /\ _redirectAfterLogin = tasks[i].pre.redirect
           ELSE /\ _redirectAfterLogin = Null
                /\ tasks[i].pushed = IF tasks[i].pre.redirect # Null
                                     THEN tasks[i].pre.redirect
                                     ELSE Str(ExpectedDefault)

C11_Witness ==
    \E i \in Slots :
        /\ Done(i, "login")
        /\ ~tasks[i].thrown
        /\ tasks[i].pre.redirect = Str(<<"/dashboard">>)
        /\ tasks[i].pushed = Str(<<"/dashboard">>)
        /\ _redirectAfterLogin = Null
        /\ options.defaultRedirect = <<"/home">>

\* The header 'Bearer <t>'
Bearer(t) == Str(<<"Bearer", " ">> \o t.s)

ExpectedProfile(body) ==
    IF options.profile_dataKey = <<>> THEN body
    ELSE Field(Field(body, <<"data">>), <<"user">>)

\* C13: a completed user() has raised nothing and has left the token store
\* as it was; called with no access token held it has returned null and sent
\* no request; called with a token held it has sent a GET to the profile
\* endpoint and has returned the payload selected by profile.dataKey (the
\* whole body when none is configured), or null when the request failed.
C13_UserProfile ==
    \A i \in Slots :
        Done(i, "user")
        => /\ ~tasks[i].thrown
           /\ StoreAsBefore(i)
           /\ IF ~IsToken(tasks[i].pre.token)
              THEN tasks[i].ret = Null /\ tasks[i].req = Undef /\ tasks[i].res = Undef
              ELSE /\ tasks[i].req # Undef
                   /\ tasks[i].req.method = "get"
                   /\ tasks[i].req.url = <<"/api/me">>
                   /\ tasks[i].ret = IF tasks[i].res = Failure THEN Null
                                     ELSE ExpectedProfile(tasks[i].res)

C13_Witness ==
    \E i \in Slots :
        /\ Done(i, "user")
        /\ options.profile_dataKey = <<"data", ".", "user">>
        /\ tasks[i].res = Rec1(<<"data">>, Rec1(<<"user">>, ann))
        /\ tasks[i].ret = Rec1(<<"name">>, Str(<<"ann">>))

\* C14 as stated: isAuthenticated() is true exactly when the access token in
\* memory is present (not null), whatever setToken, login, a refresh or
\* hydration installed.
C14_AuthenticatedIffTokenPresent ==
    isAuthenticated <=> token # Null

\* C15: with refresh mode off the refresh token in memory is absent in every
\* reachable state, whatever login, setRefreshToken, clearRefreshToken,
\* logout, tryRefreshToken and hydration have done and whatever the backend
\* holds under the refresh-token key.
C15_NoRefreshTokenWhenDisabled ==
    ~useRefreshToken => refreshToken = Null

C15_Witness ==
    \E i \in Slots :
        /\ ~useRefreshToken
        /\ store[refreshTokenKey] = Str(r1)
        /\ Done(i, "login")
        /\ IsToken(CarriedRefreshToken(tasks[i].res))
        /\ IsToken(token)
        /\ refreshToken = Null

\* The operations that call setRefreshToken or clearRefreshToken
RefreshTokenWriters == {"setRefreshToken", "clearRefreshToken", "login", "logout"}

\* C16: with refresh mode off, a completed setRefreshToken,
\* clearRefreshToken, login or logout has left the value stored under the
\* refresh-token key (and the refresh token in memory) as it was.
C16_RefreshKeyUntouchedWhenDisabled ==
    \A i \in Slots :
        (~useRefreshToken /\ tasks[i].pc = "done" /\ tasks[i].op \in RefreshTokenWriters)
        => /\ store[refreshTokenKey] = tasks[i].pre.store[refreshTokenKey]
           /\ refreshToken = tasks[i].pre.refreshToken

C16_Witness ==
    \E i \in Slots :
        /\ ~useRefreshToken
        /\ Done(i, "logout")
        /\ IsToken(tasks[i].pre.token)
        /\ tasks[i].pre.store[refreshTokenKey] = Str(r1)
        /\ store[refreshTokenKey] = Str(r1)

\* C17: a login() whose request failed has propagated the failure to its
\* caller (it has raised, and returned nothing), has left both tokens, the
\* stored values and the pending redirect as they were, and has navigated
\* nowhere.
C17_LoginFailurePropagates ==
    \A i \in Slots :
        (Done(i, "login") /\ tasks[i].res = Failure)
        => /\ tasks[i].thrown
           /\ tasks[i].ret = Undef
           /\ StoreAsBefore(i)
           /\ _redirectAfterLogin = tasks[i].pre.redirect
           /\ tasks[i].pushed = Undef

C17_Witness ==
    \E i \in Slots :
        /\ Done(i, "login")
        /\ tasks[i].res = Failure
        /\ tasks[i].thrown
        /\ IsToken(token)
        /\ IsToken(refreshToken)
        /\ _redirectAfterLogin = Str(<<"/admin">>)

\* The operations the Token Store must carry out in memory when the backend
\* is unavailable
Degradable == {"setToken", "clearToken", "login", "logout", "tryRefreshToken"}

\* C18 as stated: with the storage backend unavailable (every get, set and
\* remove throws), a completed setToken, clearToken, login (whose request
\* succeeded), logout or tryRefreshToken has raised nothing, and a login or
\* refresh whose response carried a token has left the session
\* authenticated.
C18_DegradesToMemoryOnly ==
    storageUnavailable =>
        \A i \in Slots :
            (/\ tasks[i].pc = "done" /\ tasks[i].op \in Degradable
             /\ tasks[i].res # Failure)
            => /\ ~tasks[i].thrown
               /\ (tasks[i].op \in {"login", "tryRefreshToken"} /\ IsToken(tasks[i].jwt))
                  => isAuthenticated

\* The value found by following the segments in order: undefined as soon as
\* one is missing or the value reached is not an object, the payload itself
\* when there is no segment
RECURSIVE Follow(_, _)
Follow(v, segs) ==
    IF segs = <<>> THEN v
    ELSE IF v.t = "object" /\ Head(segs) \in DOMAIN v.f
         THEN Follow(v.f[Head(segs)], Tail(segs))
         ELSE Undef

Refreshing(i) == tasks[i].pc = "refresh_post"

\* The refresh request of the call in slot i has resolved
RefreshResolvedFor(i) ==
    /\ tasks[i].op \in {"tryRefreshToken", "guard"}
    /\ tasks[i].req # Undef
    /\ tasks[i].res # Undef

\* C20: while a tryRefreshToken() waits for its refresh request,
\* isAuthenticated() and getToken() return what they returned before the
\* call (the token store is as it was); once the request has resolved the
\* access token is the new token if the response carried one, absent if the
\* request failed, and otherwise still the one held before.
C20_RefreshingNotObservable ==
    \A i \in Slots :
        /\ Refreshing(i)
           => /\ getToken = tasks[i].pre.token
              /\ isAuthenticated = IsToken(tasks[i].pre.token)
              /\ StoreAsBefore(i)
        /\ RefreshResolvedFor(i)
           => token = IF tasks[i].res = Failure THEN Null
                      ELSE IF IsToken(CarriedNewToken(tasks[i].res))
                           THEN CarriedNewToken(tasks[i].res)
                           ELSE tasks[i].pre.token

C20_Witness ==
    \E i \in Slots :
        /\ Refreshing(i)
        /\ tasks[i].op = "tryRefreshToken"
        /\ IsToken(tasks[i].pre.token)
        /\ isAuthenticated
        /\ getToken = tasks[i].pre.token

\* next({ path }) rather than next()
IsRedirect(v) == "path" \in DOMAIN v

\* C21 as stated: a guard evaluation superseded by a newer navigation applies
\* no stale decision: when it resumes and finishes it neither writes the
\* pending redirect nor issues a redirect.
C21_NoStaleDecision ==
    [][\A i \in Slots :
           (/\ tasks[i].op = "guard" /\ tasks[i].superseded
            /\ tasks[i].pc # "done" /\ tasks'[i].pc = "done")
           => /\ _redirectAfterLogin' = _redirectAfterLogin
              /\ ~IsRedirect(tasks'[i].ret)]_vars

\* C22 as stated: the chain of navigations the guard's redirects produce
\* ends in an allowed navigation (it never gets MaxHops redirects long: the
\* route table has no chain of distinct routes that long); the guard never
\* redirects a navigation that is unauthenticated to a route that has
\* requiresAuth; and the guard evaluation of a redirect target leaves the
\* recorded pending redirect as it was.
C22_NoRedirectLoop ==
    \A i \in Slots :
        Done(i, "guard")
        => /\ tasks[i].hops < MaxHops
           /\ (IsRedirect(tasks[i].ret) /\ ~isAuthenticated)
              => ~RouteAt(tasks[i].ret.path).requiresAuth
           /\ tasks[i].hops > 0 => _redirectAfterLogin = tasks[i].pre.redirect

\* C23 as stated: whenever nothing is in flight (hydration has settled and
\* every call has finished), the access token in memory equals the value
\* stored under the token key.
C23_StorageConsistentAtQuiescence ==
    Quiescent => token = store[tokenKey]

\* C24 as stated: logout() is not undone by an operation already in flight:
\* when the response of a refresh or login request that was issued before a
\* logout() arrives after that logout() has completed, with the session
\* anonymous, the step that receives it leaves the session anonymous (no
\* access token in memory or under the token key).
C24_LogoutNotUndone ==
    [][\A i \in Slots :
           (/\ tasks[i].loggedOut = "completed"
            /\ tasks[i].pc \in {"login_post", "refresh_post"}
            /\ tasks'[i].pc # tasks[i].pc
            /\ ~isAuthenticated)
           => /\ ~IsToken(token')
              /\ store'[tokenKey] \in {Null, store[tokenKey]}]_vars

\* C25: a completed tryRefreshToken() has returned true exactly when its
\* refresh response carried a token at tokenPath, which it has installed; on
\* a response (2xx) with no token at that path it has returned false and has
\* left the access token, the refresh token and the stored values as they
\* were, so that the refresh token it posted is still held for a later call
\* to post again.
C25_TrueIffTokenInstalled ==
    \A i \in Slots :
        Done(i, "tryRefreshToken")
        => /\ tasks[i].ret = Bool(TRUE)
              <=> /\ tasks[i].res \notin {Undef, Failure}
                  /\ IsToken(CarriedNewToken(tasks[i].res))
           /\ tasks[i].ret = Bool(TRUE) => token = CarriedNewToken(tasks[i].res)
           /\ (/\ tasks[i].res \notin {Undef, Failure}
               /\ ~IsToken(CarriedNewToken(tasks[i].res)))
              => /\ tasks[i].ret = Bool(FALSE)
                 /\ StoreAsBefore(i)
                 /\ IsToken(refreshToken)
                 /\ tasks[i].req.data = Rec1(<<"refresh_token">>, refreshToken)

C25_Witness ==
    \E i \in Slots :
        /\ Done(i, "tryRefreshToken")
        /\ tasks[i].res = Empty
        /\ tasks[i].ret = Bool(FALSE)
        /\ IsToken(token)
        /\ refreshToken = Str(r1)
        /\ store[refreshTokenKey] = Str(r1)

====
